---- MODULE Spec2Model ----
(***************************************************************************)
(* Model of my-data-ui/scripts/precompute_analysis.py: the batch pipeline  *)
(* that loads data.json, derives the overview, sentiment, topic, network,  *)
(* semantic-map and event-correlation results, and saves artifacts.        *)
(*                                                                         *)
(* Conventions.                                                            *)
(*  - A Python str is a sequence of code points (<<97, 98>> is "ab"), so   *)
(*    that slicing, stripping, lower-casing, substring tests and the       *)
(*    lexicographic order of sorted() are computed, not assumed.           *)
(*  - A Python dict is a sequence of [k, v] records in insertion order,    *)
(*    which is the order its iteration and a stable sorted() observe.      *)
(*  - A Python set has no order the program controls: list(a_set) is a     *)
(*    choice among the permutations of its elements (str hashes are        *)
(*    randomised per process).                                             *)
(*  - None is the record None; a record of data.json has every field, the  *)
(*    falsy value (0, "") standing for an absent, null or empty field,     *)
(*    which post.get(...) with its default and `or` treat alike.           *)
(*  - created_utc and created hold epoch seconds, date holds a string, as  *)
(*    in the Reddit export the script is written for.                      *)
(*  - The third-party routines (VADER, CountVectorizer + LDA, TF-IDF + PCA *)
(*    + KMeans) are oracles: the state holds what they return for the      *)
(*    run's input, fixed for the run.                                      *)
(***************************************************************************)
EXTENDS Integers, Sequences, FiniteSets, TLC

VARIABLES
    tz,                  \* local zone offset (seconds) used by datetime.fromtimestamp
    VADER_AVAILABLE,     \* module flag, line 25/27
    SKLEARN_AVAILABLE,   \* module flag, line 18/20
    analyzer,            \* text -> compound score (ten-thousandths) of polarity_scores
    lda,                 \* outcome of vectorizer.fit_transform + lda.fit on the corpus
    tfidf,               \* outcome of the TF-IDF vectorizer of the semantic map
    events_file,         \* public/events.json: whether it exists, and its content
    raw_data,            \* content of public/data.json
    max_nodes,           \* compute_network's max_nodes argument
    data,                \* main's `data`
    overview, sentiment, topics, network, semantic_map, event_correlations,
    saved,               \* names of the artifact files written so far
    pc,                  \* position in main()
    runs,                \* number of times main() was started
    first                \* the stage results of the first run, once a second one starts

vars == <<tz, VADER_AVAILABLE, SKLEARN_AVAILABLE, analyzer, lda, tfidf, events_file,
          raw_data, max_nodes, data, overview, sentiment, topics, network,
          semantic_map, event_correlations, saved, pc, runs, first>>

None == [none |-> TRUE]

-----------------------------------------------------------------------------
(* Python str and list helpers *)

Min(a, b) == IF a <= b THEN a ELSE b

Range(s) == {s[i] : i \in 1..Len(s)}

\* s[:n]
Take(s, n) == SubSeq(s, 1, Min(n, Len(s)))

\* str < str: code-point lexicographic order
RECURSIVE StrLess(_, _)
StrLess(a, b) ==
    IF b = <<>> THEN FALSE
    ELSE IF a = <<>> THEN TRUE
    ELSE IF Head(a) # Head(b) THEN Head(a) < Head(b)
    ELSE StrLess(Tail(a), Tail(b))

\* the characters str.strip() removes (ASCII whitespace)
Whitespace == {9, 10, 11, 12, 13, 28, 29, 30, 31, 32}

RECURSIVE LStrip(_)
LStrip(s) == IF s # <<>> /\ Head(s) \in Whitespace THEN LStrip(Tail(s)) ELSE s

RECURSIVE RStrip(_)
RStrip(s) ==
    IF s # <<>> /\ s[Len(s)] \in Whitespace THEN RStrip(SubSeq(s, 1, Len(s) - 1)) ELSE s

\* str.strip()
Strip(s) == RStrip(LStrip(s))

\* str.lower() on ASCII
Lower(s) == [i \in 1..Len(s) |-> IF s[i] >= 65 /\ s[i] <= 90 THEN s[i] + 32 ELSE s[i]]

\* term in text
IsSubstring(term, text) ==
    \E i \in 0..(Len(text) - Len(term)) : SubSeq(text, i + 1, i + Len(term)) = term

\* k.startswith(prefix)
StartsWith(k, prefix) == Len(k) >= Len(prefix) /\ SubSeq(k, 1, Len(prefix)) = prefix

\* a non-negative number printed in `width` digits, zero padded
RECURSIVE Digits(_, _)
Digits(n, width) ==
    IF width = 0 THEN <<>> ELSE Digits(n \div 10, width - 1) \o <<48 + (n % 10)>>

-----------------------------------------------------------------------------
(* dict helpers: a dict is a sequence of [k, v] in insertion order *)

Keys(d) == [i \in 1..Len(d) |-> d[i].k]

Has(d, key) == \E i \in 1..Len(d) : d[i].k = key

\* d.get(key, default)
Get(d, key, default) ==
    IF Has(d, key) THEN d[CHOOSE i \in 1..Len(d) : d[i].k = key].v ELSE default

\* d[key] = value (a new key goes last)
Put(d, key, value) ==
    IF Has(d, key)
    THEN [i \in 1..Len(d) |-> IF d[i].k = key THEN [k |-> key, v |-> value] ELSE d[i]]
    ELSE Append(d, [k |-> key, v |-> value])

\* defaultdict(int): d[key] += 1
Inc(d, key) == Put(d, key, Get(d, key, 0) + 1)

\* sorted(keys) of str keys
RECURSIVE InsertStr(_, _)
InsertStr(s, x) ==
    IF s = <<>> THEN <<x>>
    ELSE IF StrLess(x, Head(s)) THEN <<x>> \o s
    ELSE <<Head(s)>> \o InsertStr(Tail(s), x)

RECURSIVE SortedStr(_)
SortedStr(s) == IF s = <<>> THEN <<>> ELSE InsertStr(SortedStr(Tail(s)), Head(s))

\* sorted(d.items(), key=lambda x: -x[1]): stable, larger counts first
RECURSIVE InsertDesc(_, _)
InsertDesc(s, x) ==
    IF s = <<>> THEN <<x>>
    ELSE IF x.v > Head(s).v THEN <<x>> \o s
    ELSE <<Head(s)>> \o InsertDesc(Tail(s), x)

RECURSIVE SortedDesc(_)
SortedDesc(d) ==
    IF d = <<>> THEN <<>>
    ELSE InsertDesc(SortedDesc(SubSeq(d, 1, Len(d) - 1)), d[Len(d)])

-----------------------------------------------------------------------------
(* extract_date and get_full_text *)

\* datetime.fromtimestamp(created).strftime('%Y-%m-%d') for created >= 0,
\* in the zone whose offset is tz
strftime(created) ==
    LET z   == ((created + tz) \div 86400) + 719468
        era == z \div 146097
        doe == z - era * 146097
        yoe == (doe - doe \div 1460 + doe \div 36524 - doe \div 146096) \div 365
        doy == doe - (365 * yoe + yoe \div 4 - yoe \div 100)
        mp  == (5 * doy + 2) \div 153
        d   == doy - (153 * mp + 2) \div 5 + 1
        m   == IF mp < 10 THEN mp + 3 ELSE mp - 9
        y   == yoe + era * 400 + (IF m <= 2 THEN 1 ELSE 0)
    IN  Digits(y, 4) \o <<45>> \o Digits(m, 2) \o <<45>> \o Digits(d, 2)

extract_date(post) ==
    IF post.created_utc # 0 THEN strftime(post.created_utc)
    ELSE IF post.created # 0 THEN strftime(post.created)
    ELSE IF Len(post.date) >= 10 THEN Take(post.date, 10)
    ELSE post.date

get_full_text(post) == Strip(post.title \o <<32>> \o post.selftext \o <<32>> \o post.body)

-----------------------------------------------------------------------------
(* for ... in data: acc = Step(acc, item) *)

\* An iteration works on the value the one before it left: `next = next` has
\* the accumulator computed before the loop goes on, as Python's statements do.
RECURSIVE Fold(_, _, _)
Fold(Step(_, _), acc, s) ==
    IF s = <<>> THEN acc
    ELSE LET next == Step(acc, Head(s))
         IN  CASE next = next -> Fold(Step, next, Tail(s))

DELETED == <<91, 100, 101, 108, 101, 116, 101, 100, 93>>   \* "[deleted]"

-----------------------------------------------------------------------------
(* compute_overview *)

TopAuthorsLimit == 20
TopSubredditsLimit == 10

\* overview_step without the '[deleted]' test of line 299
overview_step_counts_deleted(acc, post) ==
    LET date      == extract_date(post)
        author    == post.author
        subreddit == post.subreddit
    IN  [posts_by_date |->
             IF date # <<>> THEN Inc(acc.posts_by_date, date) ELSE acc.posts_by_date,
         author_post_count |->
             IF author # <<>>
             THEN Inc(acc.author_post_count, author) ELSE acc.author_post_count,
         subreddit_count |->
             IF subreddit # <<>> THEN Inc(acc.subreddit_count, subreddit)
             ELSE acc.subreddit_count]

\* one iteration of the loop of lines 292-302
overview_step(acc, post) ==
    LET date      == extract_date(post)
        author    == post.author
        subreddit == post.subreddit
    IN  [posts_by_date |->
             IF date # <<>> THEN Inc(acc.posts_by_date, date) ELSE acc.posts_by_date,
         author_post_count |->
             IF author # <<>> /\ author # DELETED
             THEN Inc(acc.author_post_count, author) ELSE acc.author_post_count,
         subreddit_count |->
             IF subreddit # <<>> THEN Inc(acc.subreddit_count, subreddit)
             ELSE acc.subreddit_count]

overview_counts(d) ==
    Fold(overview_step,
         [posts_by_date |-> <<>>, author_post_count |-> <<>>, subreddit_count |-> <<>>], d)

compute_overview(d) ==
    LET acc   == overview_counts(d)
        dates == SortedStr(Keys(acc.posts_by_date))
        byAuthor    == Take(SortedDesc(acc.author_post_count), TopAuthorsLimit)
        bySubreddit == Take(SortedDesc(acc.subreddit_count), TopSubredditsLimit)
    IN  [stats |->
             [totalPosts |-> Len(d),
              uniqueAuthors |-> Len(acc.author_post_count),
              uniqueSubreddits |-> Len(acc.subreddit_count),
              dateRange |->
                  [start |-> IF dates # <<>> THEN dates[1] ELSE <<>>,
                   end   |-> IF dates # <<>> THEN dates[Len(dates)] ELSE <<>>]],
         timeline |->
             [i \in 1..Len(dates) |->
                 [date |-> dates[i], count |-> Get(acc.posts_by_date, dates[i], 0)]],
         topAuthors |->
             [i \in 1..Len(byAuthor) |->
                 [author |-> byAuthor[i].k, count |-> byAuthor[i].v]],
         topSubreddits |->
             [i \in 1..Len(bySubreddit) |->
                 [subreddit |-> bySubreddit[i].k, count |-> bySubreddit[i].v]]]

-----------------------------------------------------------------------------
(* compute_sentiment *)

\* the thresholds 0.05 and -0.05 of lines 96 and 98, in ten-thousandths
\* (VADER rounds the compound score to four decimals)
PositiveThreshold == 500
NegativeThreshold == -500

classify(compound) ==
    IF compound >= PositiveThreshold THEN "positive"
    ELSE IF compound <= NegativeThreshold THEN "negative"
    ELSE "neutral"

ZeroCounts == [positive |-> 0, negative |-> 0, neutral |-> 0, total |-> 0]

\* sentiment_step whose empty-text branch continues without a record
sentiment_step_drop_empty(acc, post) ==
    LET text == get_full_text(post) IN
    IF text = <<>>
    THEN acc
    ELSE
        LET compound  == analyzer[text]
            label     == classify(compound)
            date      == extract_date(post)
            counts    == Get(acc.sentiment_by_date, date, ZeroCounts)
        IN  [sentiment_by_date |->
                 IF date # <<>>
                 THEN Put(acc.sentiment_by_date, date,
                          [counts EXCEPT ![label] = @ + 1, !.total = @ + 1])
                 ELSE acc.sentiment_by_date,
             sentiment_distribution |-> [acc.sentiment_distribution EXCEPT ![label] = @ + 1],
             post_sentiments |->
                 Append(acc.post_sentiments,
                        [id |-> post.id, sentiment |-> label, score |-> compound])]

\* sentiment_step without the `if date:` of line 106
sentiment_step_no_date_check(acc, post) ==
    LET text == get_full_text(post) IN
    IF text = <<>>
    THEN [acc EXCEPT !.post_sentiments =
              Append(@, [id |-> post.id, sentiment |-> "neutral", score |-> 0])]
    ELSE
        LET compound  == analyzer[text]
            label     == classify(compound)
            date      == extract_date(post)
            counts    == Get(acc.sentiment_by_date, date, ZeroCounts)
        IN  [sentiment_by_date |->
                 Put(acc.sentiment_by_date, date,
                     [counts EXCEPT ![label] = @ + 1, !.total = @ + 1]),
             sentiment_distribution |-> [acc.sentiment_distribution EXCEPT ![label] = @ + 1],
             post_sentiments |->
                 Append(acc.post_sentiments,
                        [id |-> post.id, sentiment |-> label, score |-> compound])]

\* one iteration of the loop of lines 87-114
sentiment_step(acc, post) ==
    LET text == get_full_text(post) IN
    IF text = <<>>
    THEN [acc EXCEPT !.post_sentiments =
              Append(@, [id |-> post.id, sentiment |-> "neutral", score |-> 0])]
    ELSE
        LET compound  == analyzer[text]
            label     == classify(compound)
            date      == extract_date(post)
            counts    == Get(acc.sentiment_by_date, date, ZeroCounts)
        IN  [sentiment_by_date |->
                 IF date # <<>>
                 THEN Put(acc.sentiment_by_date, date,
                          [counts EXCEPT ![label] = @ + 1, !.total = @ + 1])
                 ELSE acc.sentiment_by_date,
             sentiment_distribution |-> [acc.sentiment_distribution EXCEPT ![label] = @ + 1],
             post_sentiments |->
                 Append(acc.post_sentiments,
                        [id |-> post.id, sentiment |-> label, score |-> compound])]

compute_sentiment(d) ==
    IF ~VADER_AVAILABLE THEN None
    ELSE
        LET acc == Fold(sentiment_step,
                        [sentiment_by_date |-> <<>>,
                         sentiment_distribution |->
                             [positive |-> 0, negative |-> 0, neutral |-> 0],
                         post_sentiments |-> <<>>], d)
            dates == SortedStr(Keys(acc.sentiment_by_date))
        IN  [distribution |-> acc.sentiment_distribution,
             timeline |->
                 [i \in 1..Len(dates) |->
                     LET counts == Get(acc.sentiment_by_date, dates[i], ZeroCounts)
                     IN  [date |-> dates[i],
                          positive |-> counts.positive,
                          negative |-> counts.negative,
                          neutral |-> counts.neutral,
                          total |-> counts.total]],
             post_sentiments |-> acc.post_sentiments]

-----------------------------------------------------------------------------
(* compute_topics *)

n_topics == 5
n_top_words == 10
EvolutionTerms == 3        \* topic['words'][:3]
MinTextLen == 20           \* len(t) > 20

\* "Topic N", the f-string of lines 187 and 194
TopicPrefix == <<84, 111, 112, 105, 99>>
TopicName(i) == TopicPrefix \o <<32, 48 + i>>

\* topic.argsort()[:-n_top_words-1:-1]: the indices of the n_top_words largest
\* weights of the row, largest first (the oracle's weights are distinct in a row)
RECURSIVE InsertByWeight(_, _, _)
InsertByWeight(s, i, row) ==
    IF s = <<>> THEN <<i>>
    ELSE IF row[i] > row[Head(s)] THEN <<i>> \o s
    ELSE <<Head(s)>> \o InsertByWeight(Tail(s), i, row)

RECURSIVE ArgsortDesc(_, _)
ArgsortDesc(row, n) == IF n = 0 THEN <<>> ELSE InsertByWeight(ArgsortDesc(row, n - 1), n, row)

top_words(row, feature_names) ==
    LET top_indices == Take(ArgsortDesc(row, Len(row)), n_top_words)
    IN  [j \in 1..Len(top_indices) |->
            [term |-> feature_names[top_indices[j]], weight |-> row[top_indices[j]]]]

\* lines 180-189
extract_topics(model) ==
    [i \in 1..Len(model.components) |->
        [id |-> i, name |-> TopicName(i),
         words |-> top_words(model.components[i], model.feature_names)]]

\* any(term in text_lower for term in top_terms), lines 204-206
topic_matches(topic, text) ==
    LET top_terms  == Take(topic.words, EvolutionTerms)
        text_lower == Lower(text)
    IN  \E j \in 1..Len(top_terms) : IsSubstring(top_terms[j].term, text_lower)

\* the default of topic_by_date, line 194
ZeroTopicCounts == [i \in 1..n_topics |-> [k |-> TopicName(i), v |-> 0]]

\* match_topics that stops at the first topic that matches (one label per post)
RECURSIVE match_topics_first_only(_, _, _, _, _)
match_topics_first_only(topic_by_date, tlist, i, text, date) ==
    IF i > Len(tlist) THEN topic_by_date
    ELSE IF topic_matches(tlist[i], text)
    THEN Put(topic_by_date, date,
             Inc(Get(topic_by_date, date, ZeroTopicCounts), tlist[i].name))
    ELSE match_topics_first_only(topic_by_date, tlist, i + 1, text, date)

\* the inner loop of lines 203-207 over the topics from index i on
RECURSIVE match_topics(_, _, _, _, _)
match_topics(topic_by_date, tlist, i, text, date) ==
    IF i > Len(tlist) THEN topic_by_date
    ELSE IF topic_matches(tlist[i], text)
    THEN LET next == Put(topic_by_date, date,
                         Inc(Get(topic_by_date, date, ZeroTopicCounts), tlist[i].name))
         IN  CASE next = next -> match_topics(next, tlist, i + 1, text, date)
    ELSE match_topics(topic_by_date, tlist, i + 1, text, date)

\* the loop of lines 196-207
RECURSIVE topic_evolution(_, _, _)
topic_evolution(topic_by_date, tlist, d) ==
    IF d = <<>> THEN topic_by_date
    ELSE
        LET text == get_full_text(Head(d))
            date == extract_date(Head(d))
        IN  IF text = <<>> \/ date = <<>>
            THEN topic_evolution(topic_by_date, tlist, Tail(d))
            ELSE LET next == match_topics(topic_by_date, tlist, 1, text, date)
                 IN  CASE next = next -> topic_evolution(next, tlist, Tail(d))

compute_topics(d) ==
    IF ~SKLEARN_AVAILABLE THEN None
    ELSE IF lda.error THEN None          \* ValueError of fit_transform, lines 159-163
    ELSE
        LET tlist == extract_topics(lda)
            topic_by_date == topic_evolution(<<>>, tlist, d)
            dates == SortedStr(Keys(topic_by_date))
        IN  [topics |-> tlist,
             evolution |->
                 [i \in 1..Len(dates) |->
                     [date |-> dates[i],
                      counts |-> Get(topic_by_date, dates[i], ZeroTopicCounts)]]]

-----------------------------------------------------------------------------
(* compute_network *)

MinEdgeWeight == 2

\* network_step that counts an author's post whether or not it has a date
network_step_counts_undated(acc, post) ==
    LET author    == post.author
        subreddit == post.subreddit
        date      == extract_date(post)
    IN  IF author # <<>> /\ author # DELETED /\ subreddit # <<>>
        THEN [author_subreddit_date |->
                  IF date # <<>>
                  THEN Put(acc.author_subreddit_date, <<subreddit, date>>,
                           Get(acc.author_subreddit_date, <<subreddit, date>>, {})
                               \cup {author})
                  ELSE acc.author_subreddit_date,
              author_post_count |-> Inc(acc.author_post_count, author)]
        ELSE acc

\* one iteration of the loop of lines 232-239
network_step(acc, post) ==
    LET author    == post.author
        subreddit == post.subreddit
        date      == extract_date(post)
    IN  IF author # <<>> /\ author # DELETED /\ subreddit # <<>> /\ date # <<>>
        THEN [author_subreddit_date |->
                  Put(acc.author_subreddit_date, <<subreddit, date>>,
                      Get(acc.author_subreddit_date, <<subreddit, date>>, {}) \cup {author}),
              author_post_count |-> Inc(acc.author_post_count, author)]
        ELSE acc

network_counts(d) ==
    Fold(network_step, [author_subreddit_date |-> <<>>, author_post_count |-> <<>>], d)

\* the lists list(a_set) can be
Listings(S) ==
    {f \in [1..Cardinality(S) -> S] : \A i, j \in 1..Cardinality(S) : f[i] = f[j] => i = j}

\* one list per bucket, in the buckets' order
BucketListings(buckets) ==
    {f \in [1..Len(buckets) -> UNION {Listings(buckets[i].v) : i \in 1..Len(buckets)}] :
        \A i \in 1..Len(buckets) : f[i] \in Listings(buckets[i].v)}

\* tuple(sorted([x, y]))
sorted_pair(x, y) == IF StrLess(y, x) THEN <<y, x>> ELSE <<x, y>>

\* the loops of lines 246-249 over one bucket's list, from the pair (i, j) on
RECURSIVE bucket_edges(_, _, _, _)
bucket_edges(edge_weights, authors, i, j) ==
    IF i > Len(authors) THEN edge_weights
    ELSE IF j > Len(authors) THEN bucket_edges(edge_weights, authors, i + 1, i + 2)
    ELSE bucket_edges(Inc(edge_weights, sorted_pair(authors[i], authors[j])),
                      authors, i, j + 1)

\* the loop of lines 244-249 over the buckets from index b on
RECURSIVE build_edges(_, _, _)
build_edges(edge_weights, listing, b) ==
    IF b > Len(listing) THEN edge_weights
    ELSE build_edges(bucket_edges(edge_weights, listing[b], 1, 2), listing, b + 1)

\* keep_link with the weight threshold off by one
keep_link_weight1(e, top_author_set) ==
    e.k[1] \in top_author_set /\ e.k[2] \in top_author_set /\ e.v >= MinEdgeWeight - 1

\* if a1 in top_author_set and a2 in top_author_set and weight >= 2, line 268
keep_link(e, top_author_set) ==
    e.k[1] \in top_author_set /\ e.k[2] \in top_author_set /\ e.v >= MinEdgeWeight

\* the loop of lines 266-273
RECURSIVE build_links(_, _)
build_links(edge_weights, top_author_set) ==
    IF edge_weights = <<>> THEN <<>>
    ELSE (IF keep_link(Head(edge_weights), top_author_set)
          THEN <<[source |-> Head(edge_weights).k[1],
                  target |-> Head(edge_weights).k[2],
                  value  |-> Head(edge_weights).v]>>
          ELSE <<>>)
         \o build_links(Tail(edge_weights), top_author_set)

\* listing[b] is list(authors) of the b-th bucket
compute_network(d, maxNodes, listing) ==
    LET acc            == network_counts(d)
        edge_weights   == build_edges(<<>>, listing, 1)
        top_authors    == Take(SortedDesc(acc.author_post_count), maxNodes)
        top_author_set == {top_authors[i].k : i \in 1..Len(top_authors)}
    IN  [nodes |->
             [i \in 1..Len(top_authors) |->
                 [id |-> top_authors[i].k, name |-> top_authors[i].k,
                  val |-> top_authors[i].v, posts |-> top_authors[i].v]],
         links |-> build_links(edge_weights, top_author_set)]

-----------------------------------------------------------------------------
(* compute_semantic_map *)

n_clusters == 5
MinDocuments == 10         \* if len(valid_texts) < 10
SnippetLen == 100          \* valid_texts[i][:100] + "..."

Ellipsis == <<46, 46, 46>>
Unknown == <<85, 110, 107, 110, 111, 119, 110>>     \* 'Unknown'

\* str(i) for i >= 0
RECURSIVE Str(_)
Str(n) == IF n < 10 THEN <<48 + n>> ELSE Str(n \div 10) \o <<48 + (n % 10)>>

\* valid_indices, line 345 (1-based here)
RECURSIVE valid_indices(_, _)
valid_indices(d, i) ==
    IF i > Len(d) THEN <<>>
    ELSE (IF Len(get_full_text(d[i])) > MinTextLen THEN <<i>> ELSE <<>>)
         \o valid_indices(d, i + 1)

\* the x, y and cluster of a point are the numeric routines' outputs; they are
\* left out of the modelled point
compute_semantic_map(d) ==
    IF ~SKLEARN_AVAILABLE THEN None
    ELSE
        LET valid == valid_indices(d, 1) IN
        IF Len(valid) < MinDocuments THEN None
        ELSE [points |->
                  [i \in 1..Len(valid) |->
                      LET post == d[valid[i]]
                      IN  [id |-> IF post.id = <<>> THEN Str(i - 1) ELSE post.id,
                           author |-> IF post.author = <<>> THEN Unknown ELSE post.author,
                           text |-> Take(get_full_text(post), SnippetLen) \o Ellipsis]],
              clusters |-> n_clusters]

\* TfidfVectorizer.fit_transform raises ValueError when no term survives
\* min_df / max_df / stop words; nothing catches it (line 361)
semantic_map_raises(d) ==
    /\ SKLEARN_AVAILABLE
    /\ Len(valid_indices(d, 1)) >= MinDocuments
    /\ tfidf.error

-----------------------------------------------------------------------------
(* compute_event_correlations *)

TopTopicsLimit == 3

DateKey == <<100, 97, 116, 101>>      \* 'date'

\* round(neg_ratio, 2), in hundredths. A tie needs a denominator that is a
\* multiple of 8; round() then goes to the even hundredth when the quotient
\* is an exact binary fraction (1/8 -> 0.12).
round2(num, den) ==
    LET q == (100 * num) \div den
        r == (100 * num) % den
    IN  IF 2 * r > den THEN q + 1
        ELSE IF 2 * r < den THEN q
        ELSE IF q % 2 = 0 THEN q ELSE q + 1

\* {item['date']: item for item in timeline}.get(date): the last item of that date
find_date(timeline, date) ==
    LET hits == {i \in 1..Len(timeline) : timeline[i].date = date}
    IN  IF hits = {} THEN None
        ELSE timeline[CHOOSE i \in hits : \A j \in hits : j <= i]

\* [(k, v) for k, v in day_topics.items() if k.startswith('Topic')]
RECURSIVE topic_items(_, _)
topic_items(keys, counts) ==
    IF keys = <<>> THEN <<>>
    ELSE (IF StartsWith(Head(keys), TopicPrefix)
          THEN <<[k |-> Head(keys), v |-> Get(counts, Head(keys), 0)]>>
          ELSE <<>>)
         \o topic_items(Tail(keys), counts)

\* top_topics that slices without sorting by count
top_topics_unsorted(day) ==
    IF day = None THEN <<>>
    ELSE
        LET sorted_topics ==
                Take(topic_items(<<DateKey>> \o Keys(day.counts), day.counts),
                     TopTopicsLimit)
        IN  [i \in 1..Len(sorted_topics) |->
                [name |-> sorted_topics[i].k, count |-> sorted_topics[i].v]]

\* lines 433-439; day is the evolution entry of the date, or None
top_topics(day) ==
    IF day = None THEN <<>>
    ELSE
        LET sorted_topics ==
                Take(SortedDesc(topic_items(<<DateKey>> \o Keys(day.counts), day.counts)),
                     TopTopicsLimit)
        IN  [i \in 1..Len(sorted_topics) |->
                [name |-> sorted_topics[i].k, count |-> sorted_topics[i].v]]

\* one iteration of the loop of lines 413-448
correlate(event, overview_data, sentiment_data, topics_data) ==
    LET date == event.date
        volume_item == find_date(overview_data.timeline, date)
        vol == IF volume_item = None THEN 0 ELSE volume_item.count
        sent_item == find_date(sentiment_data.timeline, date)
        sent == IF sent_item = None
                THEN [positive |-> 0, negative |-> 0, neutral |-> 0]
                ELSE sent_item
        total_sent == sent.positive + sent.negative + sent.neutral
        neg_ratio == IF total_sent > 0 THEN round2(sent.negative, total_sent) ELSE 0
    IN  [event |-> event,
         metrics |->
             [volume |-> vol,
              negative_sentiment_ratio |-> neg_ratio,
              top_topics |-> top_topics(find_date(topics_data.evolution, date))]]

\* subscripting None at lines 408-409 raises TypeError
event_correlations_raises(sentiment_data, topics_data) ==
    events_file.exists /\ (sentiment_data = None \/ topics_data = None)

\* the list returned is held as the record [correlations |-> list], so that a
\* stage result is always None or a record
compute_event_correlations(overview_data, sentiment_data, topics_data) ==
    IF ~events_file.exists THEN None
    ELSE [correlations |->
             [i \in 1..Len(events_file.events) |->
                 correlate(events_file.events[i], overview_data, sentiment_data,
                           topics_data)]]

-----------------------------------------------------------------------------
(* load_data *)

\* an entry of data.json: shape "wrapped" is a dict with 'kind' and 'data',
\* "flat" any other dict, "other" a value that is not a dict
RECURSIVE load_data(_)
load_data(items) ==
    IF items = <<>> THEN <<>>
    ELSE (IF Head(items).shape = "wrapped" THEN <<Head(items).item.data>>
          ELSE IF Head(items).shape = "flat" THEN <<Head(items).item>>
          ELSE <<>>)
         \o load_data(Tail(items))

-----------------------------------------------------------------------------
(* main *)

Unset == [unset |-> TRUE]          \* a local of main() not assigned yet

Aborted == {"FileNotFoundError", "ValueError", "TypeError"}

\* the locals of main() before line 464
Fresh ==
    /\ data = Unset
    /\ overview = Unset
    /\ sentiment = Unset
    /\ topics = Unset
    /\ network = Unset
    /\ semantic_map = Unset
    /\ event_correlations = Unset
    /\ saved = {}

inputs == <<tz, VADER_AVAILABLE, SKLEARN_AVAILABLE, analyzer, lda, tfidf, events_file,
            raw_data, max_nodes>>

\* data = load_data(), line 464
Load ==
    /\ pc = "load"
    /\ raw_data.exists
    /\ data' = load_data(raw_data.items)
    /\ pc' = "overview"
    /\ UNCHANGED <<inputs, overview, sentiment, topics, network, semantic_map,
                   event_correlations, saved, runs, first>>

\* open(DATA_PATH) fails, line 38
LoadError ==
    /\ pc = "load"
    /\ ~raw_data.exists
    /\ pc' = "FileNotFoundError"
    /\ UNCHANGED <<inputs, data, overview, sentiment, topics, network, semantic_map,
                   event_correlations, saved, runs, first>>

\* line 467
Overview ==
    /\ pc = "overview"
    /\ overview' = compute_overview(data)
    /\ pc' = "sentiment"
    /\ UNCHANGED <<inputs, data, sentiment, topics, network, semantic_map,
                   event_correlations, saved, runs, first>>

\* line 468
Sentiment ==
    /\ pc = "sentiment"
    /\ sentiment' = compute_sentiment(data)
    /\ pc' = "topics"
    /\ UNCHANGED <<inputs, data, overview, topics, network, semantic_map,
                   event_correlations, saved, runs, first>>

\* line 469
Topics ==
    /\ pc = "topics"
    /\ topics' = compute_topics(data)
    /\ pc' = "network"
    /\ UNCHANGED <<inputs, data, overview, sentiment, network, semantic_map,
                   event_correlations, saved, runs, first>>

\* line 470
Network ==
    /\ pc = "network"
    /\ \E listing \in BucketListings(network_counts(data).author_subreddit_date) :
           network' = compute_network(data, max_nodes, listing)
    /\ pc' = "semantic_map"
    /\ UNCHANGED <<inputs, data, overview, sentiment, topics, semantic_map,
                   event_correlations, saved, runs, first>>

\* line 471
SemanticMap ==
    /\ pc = "semantic_map"
    /\ ~semantic_map_raises(data)
    /\ semantic_map' = compute_semantic_map(data)
    /\ pc' = "event_correlations"
    /\ UNCHANGED <<inputs, data, overview, sentiment, topics, network,
                   event_correlations, saved, runs, first>>

SemanticMapError ==
    /\ pc = "semantic_map"
    /\ semantic_map_raises(data)
    /\ pc' = "ValueError"
    /\ UNCHANGED <<inputs, data, overview, sentiment, topics, network, semantic_map,
                   event_correlations, saved, runs, first>>

\* line 472
EventCorrelations ==
    /\ pc = "event_correlations"
    /\ ~event_correlations_raises(sentiment, topics)
    /\ event_correlations' = compute_event_correlations(overview, sentiment, topics)
    /\ pc' = "save_overview"
    /\ UNCHANGED <<inputs, data, overview, sentiment, topics, network, semantic_map,
                   saved, runs, first>>

EventCorrelationsError ==
    /\ pc = "event_correlations"
    /\ event_correlations_raises(sentiment, topics)
    /\ pc' = "TypeError"
    /\ UNCHANGED <<inputs, data, overview, sentiment, topics, network, semantic_map,
                   event_correlations, saved, runs, first>>

\* `if x:` for a stage result: None and an empty list are falsy
Truthy(x) == x # None /\ x # [correlations |-> <<>>]

\* lines 477-481
SaveOverview ==
    /\ pc = "save_overview"
    /\ saved' = IF Truthy(overview) THEN saved \cup {"overview.json"} ELSE saved
    /\ pc' = "save_event_correlations"
    /\ UNCHANGED <<inputs, data, overview, sentiment, topics, network, semantic_map,
                   event_correlations, runs, first>>

\* lines 483-487
SaveEventCorrelations ==
    /\ pc = "save_event_correlations"
    /\ saved' = IF Truthy(event_correlations)
                THEN saved \cup {"event_correlations.json"} ELSE saved
    /\ pc' = "done"
    /\ UNCHANGED <<inputs, data, overview, sentiment, topics, network, semantic_map,
                   event_correlations, runs, first>>

results == [overview |-> overview, sentiment |-> sentiment, topics |-> topics,
            network |-> network, semantic_map |-> semantic_map,
            event_correlations |-> event_correlations, saved |-> saved]

\* the script is started again on the same files, lines 494-495
Rerun ==
    /\ pc = "done"
    /\ runs = 1
    /\ first' = results
    /\ runs' = 2
    /\ pc' = "load"
    /\ data' = Unset
    /\ overview' = Unset
    /\ sentiment' = Unset
    /\ topics' = Unset
    /\ network' = Unset
    /\ semantic_map' = Unset
    /\ event_correlations' = Unset
    /\ saved' = {}
    /\ UNCHANGED inputs

-----------------------------------------------------------------------------
(* The inputs the runs are checked on *)

a_ == <<97>>
    \* "a"
b_ == <<98>>
    \* "b"
c_ == <<99>>
    \* "c"
s_ == <<115>>
    \* "s"
D1 == <<50, 48, 50, 52, 45, 48, 49, 45, 48, 49>>
    \* "2024-01-01"
D2 == <<50, 48, 50, 52, 45, 48, 49, 45, 48, 50>>
    \* "2024-01-02"
D3 == <<50, 48, 50, 52, 45, 48, 49, 45, 48, 51>>
    \* "2024-01-03"
ISO2 == <<50, 48, 50, 52, 45, 48, 49, 45, 48, 50, 84, 48, 57, 58, 51, 48, 58, 48, 48, 90>>
    \* "2024-01-02T09:30:00Z"
D2023 == <<50, 48, 50, 51, 45, 49, 49, 45, 49, 52>>
    \* "2023-11-14"
D2023next == <<50, 48, 50, 51, 45, 49, 49, 45, 49, 53>>
    \* "2023-11-15"
GreatNews == <<71, 114, 101, 97, 116, 32, 78, 101, 119, 115>>
    \* "Great News"
BadDay == <<98, 97, 100, 32, 100, 97, 121>>
    \* "bad day"
Hello == <<72, 101, 108, 108, 111>>
    \* "Hello"
LongText == <<71, 114, 101, 97, 116, 32, 110, 101, 119, 115, 32, 116, 111, 100, 97, 121, 32, 102, 111, 114, 32, 101, 118, 101, 114, 121, 111, 110, 101>>
    \* "Great news today for everyone"
t_bad == <<98, 97, 100>>
    \* "bad"
t_great == <<103, 114, 101, 97, 116>>
    \* "great"
t_new == <<110, 101, 119>>
    \* "new"
t_news == <<110, 101, 119, 115>>
    \* "news"
t_today == <<116, 111, 100, 97, 121>>
    \* "today"
p1 == <<112, 49>>
    \* "p1"

Post(id, author, subreddit, created_utc, date, title, selftext) ==
    [id |-> id, author |-> author, subreddit |-> subreddit,
     created_utc |-> created_utc, created |-> 0, date |-> date,
     title |-> title, selftext |-> selftext, body |-> <<>>]

\* sequences over S of length at most n
SeqsUpTo(S, n) == UNION {[1..k -> S] : k \in 0..n}

\* the outcomes of the topic model: fit_transform raises, or a vocabulary
\* (sorted, as CountVectorizer keeps it) with one row of weights per topic
LdaError == [error |-> TRUE, feature_names |-> <<>>, components |-> <<>>]
LdaNews ==
    [error |-> FALSE,
     feature_names |-> <<t_bad, t_great, t_new, t_news, t_today>>,
     components |-> << <<2, 9, 1, 8, 7>>,
                       <<9, 1, 8, 2, 3>>,
                       <<5, 4, 1, 3, 9>>,
                       <<7, 6, 9, 8, 1>>,
                       <<1, 2, 8, 7, 9>> >>]
LdaSmall ==
    [error |-> FALSE,
     feature_names |-> <<t_great, t_today>>,
     components |-> << <<2, 1>>, <<1, 2>>, <<3, 1>>, <<1, 3>>, <<4, 1>> >>]

AllTexts == {GreatNews, BadDay, Hello, LongText}

\* the scores VADER gives the texts above when nothing else is said
\* (ten-thousandths)
DefaultAnalyzer ==
    [t \in AllTexts |->
        IF t = GreatNews THEN 6249
        ELSE IF t = LongText THEN 6249
        ELSE IF t = BadDay THEN -5423
        ELSE 0]

NoEvents == [exists |-> FALSE, events |-> <<>>]

-----------------------------------------------------------------------------
(* Spec: one run of main() over data.json files of up to MaxItems entries *)

MaxItems == 10
DefaultMaxNodes == 500

LongPost == Post(p1, a_, s_, 1700000000, <<>>, LongText, <<>>)
QuietPost == Post(<<>>, DELETED, s_, 0, D1, <<>>, <<>>)

RawPool == {[shape |-> "wrapped", item |-> [kind |-> "t3", data |-> LongPost]],
            [shape |-> "flat", item |-> QuietPost]}

MainEvents ==
    {NoEvents,
     [exists |-> TRUE, events |-> <<>>],
     [exists |-> TRUE, events |-> <<[date |-> D2023, title |-> Hello],
                                   [date |-> D3, title |-> Hello]>>]}

Init ==
    /\ tz = 0
    /\ VADER_AVAILABLE \in BOOLEAN
    /\ SKLEARN_AVAILABLE \in BOOLEAN
    /\ analyzer = DefaultAnalyzer
    /\ lda \in (IF SKLEARN_AVAILABLE THEN {LdaError, LdaNews} ELSE {LdaError})
    /\ tfidf \in (IF SKLEARN_AVAILABLE THEN {[error |-> FALSE], [error |-> TRUE]}
                  ELSE {[error |-> TRUE]})
    /\ events_file \in MainEvents
    /\ raw_data \in {[exists |-> FALSE, items |-> <<>>]}
                    \cup {[exists |-> TRUE, items |-> it] : it \in SeqsUpTo(RawPool, MaxItems)}
    /\ max_nodes = DefaultMaxNodes
    /\ pc = "load"
    /\ runs = 1
    /\ first = Unset
    /\ Fresh

Next ==
    \/ Load
    \/ LoadError
    \/ Overview
    \/ Sentiment
    \/ Topics
    \/ Network
    \/ SemanticMap
    \/ SemanticMapError
    \/ EventCorrelations
    \/ EventCorrelationsError
    \/ SaveOverview
    \/ SaveEventCorrelations

Spec == Init /\ [][Next]_vars

\* C1: in a run whose input loaded, a stage that returned no output (None from
\* compute_sentiment, compute_topics or compute_semantic_map) never aborts the
\* run: no later stage fails on that None.
C1_NoOutputNeverAborts ==
    (sentiment = None \/ topics = None \/ semantic_map = None) => pc # "TypeError"

\* the file main() would write a stage's result to
ArtifactOf ==
    [overview |-> "overview.json", sentiment |-> "sentiment.json",
     topics |-> "topics.json", network |-> "network.json",
     semantic_map |-> "semantic_map.json",
     event_correlations |-> "event_correlations.json"]

\* C2: when main() has run to completion, the artifact of each of the six
\* stages is written if and only if the stage returned a non-empty result.
C2_EveryResultSaved ==
    pc = "done" =>
        \A st \in DOMAIN ArtifactOf : Truthy(results[st]) <=> ArtifactOf[st] \in saved

-----------------------------------------------------------------------------
(* SpecNetwork: compute_network applied to record lists of up to MaxPostsNet *)
(* posts, with max_nodes 1 (the top-N cut bites) or the default              *)

MaxPostsNet == 5

NetPool ==
    {Post(<<>>, au, s_, 0, dt, <<>>, <<>>) : au \in {a_, b_, c_}, dt \in {D1, ISO2}}
    \cup {Post(<<>>, DELETED, s_, 0, D1, <<>>, <<>>)}

\* the state in which main() calls a stage: the inputs as given, the earlier
\* locals left aside
AtStage(stage, d) ==
    /\ data = d
    /\ pc = stage
    /\ overview = Unset
    /\ sentiment = Unset
    /\ topics = Unset
    /\ network = Unset
    /\ semantic_map = Unset
    /\ event_correlations = Unset
    /\ saved = {}
    /\ runs = 1
    /\ first = Unset
    /\ raw_data = [exists |-> TRUE, items |-> <<>>]

InitNetwork ==
    /\ tz = 0
    /\ VADER_AVAILABLE = TRUE
    /\ SKLEARN_AVAILABLE = TRUE
    /\ analyzer = DefaultAnalyzer
    /\ lda = LdaNews
    /\ tfidf = [error |-> FALSE]
    /\ events_file = NoEvents
    /\ max_nodes \in {1, DefaultMaxNodes}
    /\ \E d \in SeqsUpTo(NetPool, MaxPostsNet) : AtStage("network", d)

SpecNetwork == InitNetwork /\ [][Network]_vars

NetworkDone == network # Unset

NodeIds == {network.nodes[i].id : i \in 1..Len(network.nodes)}

\* the posts compute_network takes into account
Qualifies(post) ==
    /\ post.author # <<>>
    /\ post.author # DELETED
    /\ post.subreddit # <<>>
    /\ extract_date(post) # <<>>

\* the (subreddit, date) buckets in which both x and y posted
CoBuckets(x, y) ==
    {<<data[i].subreddit, extract_date(data[i])>> : i \in
        {i \in 1..Len(data) :
            /\ Qualifies(data[i])
            /\ data[i].author = x
            /\ \E j \in 1..Len(data) :
                   /\ Qualifies(data[j])
                   /\ data[j].author = y
                   /\ data[j].subreddit = data[i].subreddit
                   /\ extract_date(data[j]) = extract_date(data[i])}}

Authors == {data[i].author : i \in 1..Len(data)}

\* C3: every link of compute_network's output joins two ids of the node list,
\* has value >= 2, is no self-loop, and no two links join the same unordered
\* pair; two authors who share exactly one (subreddit, date) bucket get no link.
C3_LinksWellFormed ==
    NetworkDone =>
        /\ \A i \in 1..Len(network.links) :
               LET l == network.links[i] IN
               /\ l.source \in NodeIds
               /\ l.target \in NodeIds
               /\ l.value >= 2
               /\ l.source # l.target
               /\ \A j \in 1..Len(network.links) :
                      {network.links[j].source, network.links[j].target}
                          = {l.source, l.target} => j = i
        /\ \A x, y \in Authors :
               Cardinality(CoBuckets(x, y)) = 1 =>
                   ~\E i \in 1..Len(network.links) :
                        {network.links[i].source, network.links[i].target} = {x, y}

\* a link was emitted while another pair, met in one bucket only, got none
C3_Witness ==
    /\ NetworkDone
    /\ Len(network.links) >= 1
    /\ \E x, y \in Authors : Cardinality(CoBuckets(x, y)) = 1

-----------------------------------------------------------------------------
(* SpecSentiment: compute_sentiment applied to record lists of up to          *)
(* MaxPostsSent posts, under every scoring of the two texts around the        *)
(* thresholds                                                                 *)

MaxPostsSent == 3

SentPool ==
    {Post(p1, a_, s_, 0, dt, tx, <<>>) : dt \in {<<>>, D1, ISO2}, tx \in {<<>>, GreatNews, BadDay}}

Compounds == {-500, -499, 499, 500}

Analyzers ==
    {[t \in AllTexts |-> IF t = GreatNews THEN c1 ELSE IF t = BadDay THEN c2 ELSE 0] :
        c1 \in Compounds, c2 \in Compounds}

InitSentiment ==
    /\ tz = 0
    /\ VADER_AVAILABLE \in BOOLEAN
    /\ SKLEARN_AVAILABLE = TRUE
    /\ analyzer \in (IF VADER_AVAILABLE THEN Analyzers ELSE {DefaultAnalyzer})
    /\ lda = LdaNews
    /\ tfidf = [error |-> FALSE]
    /\ events_file = NoEvents
    /\ max_nodes = DefaultMaxNodes
    /\ \E d \in SeqsUpTo(SentPool, MaxPostsSent) : AtStage("sentiment", d)

SpecSentiment == InitSentiment /\ [][Sentiment]_vars

SentimentDone == sentiment # Unset /\ sentiment # None

RECURSIVE SumTotals(_)
SumTotals(timeline) ==
    IF timeline = <<>> THEN 0 ELSE Head(timeline).total + SumTotals(Tail(timeline))

Dated == {i \in 1..Len(data) : extract_date(data[i]) # <<>>}

\* C4: every timeline entry of compute_sentiment has positive + negative +
\* neutral = total, and the totals add up to at most the number of posts
\* whose extracted date is non-empty.
C4_TimelineTotals ==
    SentimentDone =>
        /\ \A i \in 1..Len(sentiment.timeline) :
               LET e == sentiment.timeline[i]
               IN  e.positive + e.negative + e.neutral = e.total
        /\ SumTotals(sentiment.timeline) <= Cardinality(Dated)

\* an entry mixing labels, with a dated post left out of the totals
C4_Witness ==
    /\ SentimentDone
    /\ \E i \in 1..Len(sentiment.timeline) :
           sentiment.timeline[i].total >= 2 /\ sentiment.timeline[i].negative = 1
    /\ SumTotals(sentiment.timeline) < Cardinality(Dated)

\* the posts of a date, and those of them that have text
OnDate(dt) == {i \in 1..Len(data) : extract_date(data[i]) = dt}
WithText == {i \in 1..Len(data) : get_full_text(data[i]) # <<>>}

EmptyRecord(i) == [id |-> data[i].id, sentiment |-> "neutral", score |-> 0]

\* C8 as claimed: a post with empty text and a non-empty date is still counted
\* in the timeline entry of its date, and gets the record neutral / 0.
C8_EmptyTextBucketed ==
    SentimentDone =>
        \A i \in Dated \ WithText :
            /\ \E j \in 1..Len(sentiment.timeline) :
                   /\ sentiment.timeline[j].date = extract_date(data[i])
                   /\ sentiment.timeline[j].total = Cardinality(OnDate(extract_date(data[i])))
            /\ sentiment.post_sentiments[i] = EmptyRecord(i)

\* C8 amended: a post with empty text is left out of the timeline (an entry's
\* total counts the posts of its date that have text, and a date gets an entry
\* only if such a post exists) and out of the distribution; it still gets, at
\* its position in post_sentiments, the record neutral / 0.
C8_EmptyTextSkipped ==
    SentimentDone =>
        /\ Len(sentiment.post_sentiments) = Len(data)
        /\ \A i \in (1..Len(data)) \ WithText :
               sentiment.post_sentiments[i] = EmptyRecord(i)
        /\ \A j \in 1..Len(sentiment.timeline) :
               /\ sentiment.timeline[j].total =
                      Cardinality(OnDate(sentiment.timeline[j].date) \cap WithText)
               /\ sentiment.timeline[j].total >= 1
        /\ \A i \in Dated \cap WithText :
               \E j \in 1..Len(sentiment.timeline) :
                   sentiment.timeline[j].date = extract_date(data[i])
        /\ sentiment.distribution.positive + sentiment.distribution.negative
               + sentiment.distribution.neutral = Cardinality(WithText)

\* a dated post without text, on a date that has an entry and on one that has none
C8_Witness ==
    /\ SentimentDone
    /\ \E i \in Dated \ WithText :
           \E j \in 1..Len(sentiment.timeline) :
               sentiment.timeline[j].date = extract_date(data[i])
    /\ \E i \in Dated \ WithText :
           \A j \in 1..Len(sentiment.timeline) :
               sentiment.timeline[j].date # extract_date(data[i])

-----------------------------------------------------------------------------
(* SpecTopics: compute_topics applied to record lists of up to MaxPostsTopic  *)
(* posts, under each outcome of the topic model                               *)

MaxPostsTopic == 3

TopicPool ==
    {Post(p1, a_, s_, 0, dt, tx, <<>>) :
        dt \in {<<>>, D1, ISO2}, tx \in {<<>>, GreatNews, BadDay, Hello}}

InitTopics ==
    /\ tz = 0
    /\ VADER_AVAILABLE = TRUE
    /\ SKLEARN_AVAILABLE \in BOOLEAN
    /\ analyzer = DefaultAnalyzer
    /\ lda \in (IF SKLEARN_AVAILABLE THEN {LdaError, LdaNews, LdaSmall} ELSE {LdaError})
    /\ tfidf = [error |-> FALSE]
    /\ events_file = NoEvents
    /\ max_nodes = DefaultMaxNodes
    /\ \E d \in SeqsUpTo(TopicPool, MaxPostsTopic) : AtStage("topics", d)

SpecTopics == InitTopics /\ [][Topics]_vars

TopicsDone == topics # Unset /\ topics # None

\* the posts that have text and the date dt
TextOnDate(dt) == OnDate(dt) \cap WithText

\* at least one of the first three terms of the topic occurs in the
\* lower-cased text of post i
MatchesTopic(t, i) ==
    \E j \in 1..Len(t.words) :
        j <= 3 /\ IsSubstring(t.words[j].term, Lower(get_full_text(data[i])))

Matching(t, dt) == {i \in TextOnDate(dt) : MatchesTopic(t, i)}

\* C9: topic evolution is a soft multi-label count. The counter of a topic
\* for a date is the number of posts with text and that date whose lower-cased
\* text contains one of the topic's top three terms, each topic counted on its
\* own; it lies between 0 and the number of such posts of the date; a date on
\* which some post matches some topic has an entry; dates ascend.
C9_TopicEvolution ==
    TopicsDone =>
        /\ \A e \in 1..Len(topics.evolution) :
               \A t \in 1..Len(topics.topics) :
                   LET dt == topics.evolution[e].date
                       n  == Get(topics.evolution[e].counts, topics.topics[t].name, -1)
                   IN  /\ n = Cardinality(Matching(topics.topics[t], dt))
                       /\ n >= 0
                       /\ n <= Cardinality(TextOnDate(dt))
        /\ \A i \in Dated \cap WithText :
               (\E t \in 1..Len(topics.topics) : MatchesTopic(topics.topics[t], i))
                   => \E e \in 1..Len(topics.evolution) :
                          topics.evolution[e].date = extract_date(data[i])
        /\ \A e \in 1..(Len(topics.evolution) - 1) :
               StrLess(topics.evolution[e].date, topics.evolution[e + 1].date)

\* one post counted for several topics on its date, another topic staying
\* at zero, and a second date after it
C9_Witness ==
    /\ TopicsDone
    /\ Len(topics.evolution) >= 2
    /\ \E i \in Dated \cap WithText :
           /\ Cardinality({t \in 1..Len(topics.topics) :
                              MatchesTopic(topics.topics[t], i)}) >= 2
           /\ \E t \in 1..Len(topics.topics) : ~MatchesTopic(topics.topics[t], i)

-----------------------------------------------------------------------------
(* SpecDates: the overview, sentiment, topic and network stages applied to    *)
(* record lists of up to MaxPostsDates posts with and without a date, the     *)
(* date given as a string or as epoch seconds, in two zones                   *)

MaxPostsDates == 3

DatesPool ==
    {Post(p1, au, s_, 0, dt, tx, <<>>) :
        au \in {a_, DELETED}, dt \in {<<>>, D1}, tx \in {<<>>, GreatNews}}
    \cup {Post(p1, au, s_, 1700000000, <<>>, tx, <<>>) :
        au \in {a_, DELETED}, tx \in {<<>>, GreatNews}}
    \cup {Post(p1, b_, s_, 0, D1, GreatNews, <<>>),
          Post(p1, a_, <<>>, 0, <<>>, GreatNews, <<>>)}

TZOffsets == {0, 19800}

InitDates ==
    /\ tz \in TZOffsets
    /\ VADER_AVAILABLE = TRUE
    /\ SKLEARN_AVAILABLE = TRUE
    /\ analyzer = DefaultAnalyzer
    /\ lda = LdaNews
    /\ tfidf = [error |-> FALSE]
    /\ events_file = NoEvents
    /\ max_nodes = DefaultMaxNodes
    /\ \E d \in SeqsUpTo(DatesPool, MaxPostsDates) : AtStage("overview", d)

NextDates == Overview \/ Sentiment \/ Topics \/ Network

SpecDates == InitDates /\ [][NextDates]_vars

Undated == (1..Len(data)) \ Dated

By(x) == {i \in 1..Len(data) : data[i].author = x}
In(sub) == {i \in 1..Len(data) : data[i].subreddit = sub}
Named == {x \in Authors : x # <<>> /\ x # DELETED}

\* what no stage does with a post that has no date: no date-keyed aggregate
\* has an entry for the empty date, and an entry of the overview timeline
\* counts the posts of its date
DateKeyedExcludeUndated ==
    /\ \A e \in 1..Len(overview.timeline) :
           /\ overview.timeline[e].date # <<>>
           /\ overview.timeline[e].count = Cardinality(OnDate(overview.timeline[e].date))
    /\ \A e \in 1..Len(sentiment.timeline) : sentiment.timeline[e].date # <<>>
    /\ \A e \in 1..Len(topics.evolution) : topics.evolution[e].date # <<>>

\* the overview's author and subreddit counts and the sentiment distribution
\* count a post with or without a date
UndatedCountedOutsideNetwork ==
    /\ overview.stats.uniqueAuthors = Cardinality(Named)
    /\ \A x \in Named :
           \E e \in 1..Len(overview.topAuthors) :
               /\ overview.topAuthors[e].author = x
               /\ overview.topAuthors[e].count = Cardinality(By(x))
    /\ \A i \in 1..Len(data) :
           data[i].subreddit # <<>> =>
               \E e \in 1..Len(overview.topSubreddits) :
                   /\ overview.topSubreddits[e].subreddit = data[i].subreddit
                   /\ overview.topSubreddits[e].count = Cardinality(In(data[i].subreddit))
    /\ sentiment.distribution.positive + sentiment.distribution.negative
           + sentiment.distribution.neutral = Cardinality(WithText)

\* C5 as claimed: a post without a date is left out of every date-keyed
\* aggregate and counted in every other one, the network included: a node's
\* post count counts all the posts of its author that name a subreddit, and
\* every such author is a node.
C5_UndatedCountedInNetwork ==
    NetworkDone =>
        /\ DateKeyedExcludeUndated
        /\ UndatedCountedOutsideNetwork
        /\ \A x \in Named :
               By(x) \cap {i \in 1..Len(data) : data[i].subreddit # <<>>} # {} =>
                   \E n \in 1..Len(network.nodes) :
                       /\ network.nodes[n].id = x
                       /\ network.nodes[n].posts =
                              Cardinality(By(x) \cap {i \in 1..Len(data) :
                                                         data[i].subreddit # <<>>})

\* C5 amended: a post without a date is left out of every date-keyed
\* aggregate and of the network stage (a node's post count counts the posts
\* of its author that have a subreddit and a date, and an author without such
\* a post is no node); it is counted in the overview's author and subreddit
\* counts and, when it has text, in the sentiment distribution.
C5_UndatedLeftOutOfNetwork ==
    NetworkDone =>
        /\ DateKeyedExcludeUndated
        /\ UndatedCountedOutsideNetwork
        /\ \A n \in 1..Len(network.nodes) :
               network.nodes[n].posts =
                   Cardinality({i \in By(network.nodes[n].id) : Qualifies(data[i])})
        /\ \A x \in Named :
               (\E n \in 1..Len(network.nodes) : network.nodes[n].id = x)
                   <=> \E i \in By(x) : Qualifies(data[i])

\* an author with text and a subreddit posts once with a date and once without
C5_Witness ==
    /\ NetworkDone
    /\ \E i \in Undated, j \in Dated :
           /\ data[i].author = data[j].author
           /\ data[i].author \in Named
           /\ data[i].subreddit # <<>>
           /\ get_full_text(data[i]) # <<>>
           /\ Qualifies(data[j])

-----------------------------------------------------------------------------
(* SpecAuthors: the stages up to the network applied to record lists of up to *)
(* MaxPostsAuthors posts by named, deleted and missing authors on two days    *)

MaxPostsAuthors == 4

AuthorsPool ==
    {Post(<<>>, au, s_, 0, dt, GreatNews, <<>>) :
        au \in {a_, b_, DELETED}, dt \in {D1, ISO2}}
    \cup {Post(<<>>, <<>>, s_, 0, D1, GreatNews, <<>>)}

InitAuthors ==
    /\ tz = 0
    /\ VADER_AVAILABLE = TRUE
    /\ SKLEARN_AVAILABLE = TRUE
    /\ analyzer = DefaultAnalyzer
    /\ lda = LdaNews
    /\ tfidf = [error |-> FALSE]
    /\ events_file = NoEvents
    /\ max_nodes = DefaultMaxNodes
    /\ \E d \in SeqsUpTo(AuthorsPool, MaxPostsAuthors) : AtStage("overview", d)

SpecAuthors == InitAuthors /\ [][NextDates]_vars

\* C6: the author "[deleted]" is no entry of the overview's topAuthors, does
\* not add to stats.uniqueAuthors, and is no node id and no end of a link of
\* the network.
C6_DeletedNeverAuthor ==
    /\ overview # Unset =>
           /\ \A e \in 1..Len(overview.topAuthors) : overview.topAuthors[e].author # DELETED
           /\ overview.stats.uniqueAuthors = Cardinality(Named)
    /\ NetworkDone =>
           /\ DELETED \notin NodeIds
           /\ \A l \in 1..Len(network.links) :
                  network.links[l].source # DELETED /\ network.links[l].target # DELETED

\* "[deleted]" posts next to a named author in two buckets, which would make
\* a node and a link of any other author
C6_Witness ==
    /\ NetworkDone
    /\ \E i, j \in By(DELETED) :
           /\ extract_date(data[i]) # extract_date(data[j])
           /\ \E x \in Named :
                  /\ \E k \in By(x) : extract_date(data[k]) = extract_date(data[i])
                  /\ \E k \in By(x) : extract_date(data[k]) = extract_date(data[j])
    /\ Len(network.nodes) >= 1
    /\ Len(overview.topAuthors) >= 1

-----------------------------------------------------------------------------
(* SpecEvents: the stages up to compute_event_correlations applied to event   *)
(* lists of up to MaxEvents events and record lists of up to MaxPostsEvents   *)
(* posts, every stage returning a result                                      *)

MaxPostsEvents == 3
MaxEvents == 2

EventsPool ==
    {Post(p1, a_, s_, 0, D1, GreatNews, <<>>),
     Post(p1, a_, s_, 0, D1, BadDay, <<>>),
     Post(p1, a_, s_, 0, ISO2, GreatNews, <<>>),
     Post(p1, a_, s_, 0, <<>>, GreatNews, <<>>),
     Post(p1, a_, s_, 0, D1, <<>>, <<>>)}

EventPool ==
    {[date |-> D1, title |-> Hello], [date |-> D2, title |-> GreatNews],
     [date |-> D3, title |-> BadDay]}

InitEvents ==
    /\ tz = 0
    /\ VADER_AVAILABLE = TRUE
    /\ SKLEARN_AVAILABLE = TRUE
    /\ analyzer = DefaultAnalyzer
    /\ lda = LdaNews
    /\ tfidf = [error |-> FALSE]
    /\ events_file \in {[exists |-> TRUE, events |-> ev] : ev \in SeqsUpTo(EventPool, MaxEvents)}
    /\ max_nodes = DefaultMaxNodes
    /\ \E d \in SeqsUpTo(EventsPool, MaxPostsEvents) : AtStage("overview", d)

NextEvents == Overview \/ Sentiment \/ Topics \/ Network \/ SemanticMap \/ EventCorrelations

SpecEvents == InitEvents /\ [][NextEvents]_vars

EventsDone == event_correlations # Unset /\ event_correlations # None

DatesOf(timeline) == {timeline[i].date : i \in 1..Len(timeline)}

\* the count the topic evolution holds for a topic name on a date
EvolutionCount(dt, name) ==
    LET e == CHOOSE e \in 1..Len(topics.evolution) : topics.evolution[e].date = dt
    IN  Get(topics.evolution[e].counts, name, -1)

\* C10: compute_event_correlations returns one record per event, in input
\* order, the i-th carrying the i-th event. A date absent from an aggregate
\* gives that lookup's default: volume 0, negative_sentiment_ratio 0, empty
\* top_topics. Otherwise top_topics holds at most three topics of that date,
\* by count descending, none left out having a larger count.
C10_OneRecordPerEvent ==
    EventsDone =>
        /\ Len(event_correlations.correlations) = Len(events_file.events)
        /\ \A i \in 1..Len(event_correlations.correlations) :
               LET r  == event_correlations.correlations[i]
                   dt == events_file.events[i].date
                   tt == r.metrics.top_topics
               IN  /\ r.event = events_file.events[i]
                   /\ dt \notin DatesOf(overview.timeline) => r.metrics.volume = 0
                   /\ dt \notin DatesOf(sentiment.timeline) =>
                          r.metrics.negative_sentiment_ratio = 0
                   /\ dt \notin DatesOf(topics.evolution) => tt = <<>>
                   /\ Len(tt) <= 3
                   /\ \A j \in 1..(Len(tt) - 1) : tt[j].count >= tt[j + 1].count
                   /\ \A j \in 1..Len(tt) : tt[j].count = EvolutionCount(dt, tt[j].name)
                   /\ dt \in DatesOf(topics.evolution) =>
                          \A t \in 1..Len(topics.topics) :
                              (\A j \in 1..Len(tt) : tt[j].name # topics.topics[t].name)
                                  => \A j \in 1..Len(tt) :
                                         tt[j].count >= EvolutionCount(dt, topics.topics[t].name)

\* an event on a day without posts after an event on a day whose busiest
\* topics are not the first ones
C10_Witness ==
    /\ EventsDone
    /\ Len(event_correlations.correlations) = 2
    /\ event_correlations.correlations[1].metrics.volume >= 2
    /\ event_correlations.correlations[1].metrics.negative_sentiment_ratio > 0
    /\ Len(event_correlations.correlations[1].metrics.top_topics) = 3
    /\ event_correlations.correlations[1].metrics.top_topics[1].name # TopicName(1)
    /\ event_correlations.correlations[1].metrics.top_topics[1].count >= 2
    /\ event_correlations.correlations[2].metrics.volume = 0
    /\ event_correlations.correlations[2].metrics.top_topics = <<>>

-----------------------------------------------------------------------------
(* SpecTwice: main() run twice on the same data.json of up to MaxPostsTwice   *)
(* distinct entries, with the same libraries, zone and library outcomes       *)

MaxPostsTwice == 6

TwicePool ==
    {[shape |-> "flat", item |-> Post(<<>>, au, s_, 0, dt, <<>>, <<>>)] :
        au \in {a_, b_, c_}, dt \in {D1, D2}}

\* the data.json files whose entries are distinct posts
DistinctEntries ==
    {it \in SeqsUpTo(TwicePool, MaxPostsTwice) :
        \A i, j \in 1..Len(it) : it[i] = it[j] => i = j}

InitTwice ==
    /\ tz = 0
    /\ VADER_AVAILABLE = TRUE
    /\ SKLEARN_AVAILABLE = TRUE
    /\ analyzer = DefaultAnalyzer
    /\ lda = LdaNews
    /\ tfidf = [error |-> FALSE]
    /\ events_file = NoEvents
    /\ raw_data \in {[exists |-> TRUE, items |-> it] : it \in DistinctEntries}
    /\ max_nodes = DefaultMaxNodes
    /\ pc = "load"
    /\ runs = 1
    /\ first = Unset
    /\ Fresh

NextTwice ==
    \/ Load
    \/ Overview
    \/ Sentiment
    \/ Topics
    \/ Network
    \/ SemanticMap
    \/ EventCorrelations
    \/ SaveOverview
    \/ SaveEventCorrelations
    \/ Rerun

SpecTwice == InitTwice /\ [][NextTwice]_vars

\* C7: a second run of the pipeline on the same input, with the same
\* configuration, ends with the same stage results and artifacts as the first.
C7_SecondRunIdentical == (runs = 2 /\ pc = "done") => results = first

====
